---- MODULE Spec2Model ----
(***************************************************************************)
(* Event lifecycle and dual-store consistency of the travel app.           *)
(*                                                                         *)
(* Relational store (Supabase/Postgres): tables events and                 *)
(* event_participants, the update_participant_count trigger, the primary   *)
(* key (event_id, user_id) and the ON DELETE CASCADE foreign key.          *)
(* Messaging provider (Stream): one channel event_<id> per event with a    *)
(* member list and a frozen flag.                                          *)
(*                                                                         *)
(* The edge functions create-event and join-event are translated from      *)
(* their handlers.  A handler is a sequence of awaited calls; another      *)
(* request can run between any two of them, so each awaited call is one    *)
(* step.  A call that fails changes nothing in either store, so the catch  *)
(* branch that follows it (the compensating delete) is taken in the same   *)
(* step as the failure; profiles are never written here, so the            *)
(* verified_only gate is evaluated together with the event fetch.  A       *)
(* handler returns in the step of its last awaited call, and the response  *)
(* stays visible for that one state.                                       *)
(* delete-event, process-expiring-events, reopen-event and                 *)
(* cleanup-expired-events are not part of the sources and follow the       *)
(* design text.                                                            *)
(*                                                                         *)
(* Failure injection: every read, insert and provider call whose result a  *)
(* handler inspects can fail.  Deletes by key in the relational store,     *)
(* whose result no handler inspects, are taken to succeed.                 *)
(***************************************************************************)
EXTENDS Integers, FiniteSets, Sequences, Bags, TLC

\* ---------------------------------------------------------------- bounds
\* number of requests and sweeps a behaviour starts; all may overlap
MaxOps == 2

\* ------------------------------------------------------------- universes
Users == {"u1", "u2"}
EventIds == 1..(MaxOps + 1)

\* profiles.verification_status, read-only to these protocols
verification_status(u) == IF u = "u1" THEN "verified" ELSE "none"

VARIABLES
  events,               \* table events: id -> row (status "absent" = no row)
  nextId,               \* next value of gen_random_uuid(); ids are never reused
  event_participants,   \* table event_participants: set of <<event_id, user_id>>
  channels,             \* Stream channels, keyed by the event id of event_<id>
  requests,             \* bag of the requests in flight, and the one that just returned
  ops,                  \* number of requests and sweeps started so far
  providerFailed,       \* history: a call to the messaging provider has failed
  purged,               \* history: ids of the events the retention sweep has deleted
  succeeded             \* history: <<event_id, user_id>> of the joins answered with success

vars == <<events, nextId, event_participants, channels, requests, ops, providerFailed,
          purged, succeeded>>

\* create-event request validation (a pure check of the body against the clock)
VARIABLES
  body,                 \* the parsed JSON body of a create-event request
  now,                  \* Date.now() of the handler, in ms
  response              \* "-" until the validation has answered

createVars == <<body, now, response>>

\* map screen (MapScreen component, mapStore, locationStore)
VARIABLES
  isMounted,            \* the isMounted flag of the location-init effect
  init,                 \* the init() coroutine: its position and its latitude/longitude
  coordinates,          \* locationStore.coordinates
  city,                 \* locationStore.city
  lastFetchRef,         \* lastFetchRef.current
  channelRef,           \* channelRef.current: id of a subscription, 0 for null
  subs,                 \* the change-feed subscriptions that are open
  subscribed,           \* number of subscriptions created so far (their ids)
  locationWatchRef,     \* locationWatchRef.current is set
  watchActive,          \* the position watcher delivers samples
  callbacks,            \* watch callbacks waiting for their spatial query; gone is
                        \* history: ids the feed reported expired or deleted meanwhile
  answered,             \* history: number of the latest sample whose query has answered
  samples,              \* number of position samples delivered so far
  mapEvents,            \* mapStore.events, the rendered set
  step                  \* history: the callback that ran in the last step

mapVars == <<isMounted, init, coordinates, city, lastFetchRef, channelRef, subs, subscribed,
             locationWatchRef, watchActive, callbacks, answered, samples, mapEvents,
             step>>

\* event chat screen: the meetup point of one event and its channel
VARIABLES
  streamChannel,        \* the streamChannel state of the screen is set
  meetup_point,         \* channel.data.meetup_point.label, "" when not set
  meetup_point_label,   \* events.meetup_point_label, "" for NULL
  save,                 \* the saveMeetupPoint call: its position, label and the labels before it
  accepted,             \* history: clock values of the updatePartial calls the provider accepted
  clock,                \* wall clock, in ticks
  saves                 \* number of saveMeetupPoint calls so far

meetupVars == <<streamChannel, meetup_point, meetup_point_label, save, accepted, clock, saves>>

\* delete-user-account: the users of the two stores and the calls
VARIABLES
  authUsers,            \* auth.users
  profiles,             \* profiles rows (ON DELETE CASCADE from auth.users)
  streamUsers,          \* users of the messaging provider
  calls                 \* the delete-user-account call of each user

accountVars == <<authUsers, profiles, streamUsers, calls>>

sideVars == <<meetupVars, accountVars>>

\* state outside the two stores and their requests
clientVars == <<createVars, mapVars, sideVars>>
tables == <<events, event_participants, channels>>

NoEvent == [host_id |-> "-", status |-> "absent", verified_only |-> FALSE,
            participant_count |-> 0, age |-> 0]
NoChannel == [exists |-> FALSE, members |-> {}, frozen |-> FALSE]

\* A request: op and pc give the handler and its position, res its response.
\* status and verified_only are the fields of the event row the handler loaded.
\* wrote, addCalled, fault and delta are history fields: whether the call has
\* written to a store, has called addMembers, has seen a call fail, and its net
\* change to participant_count.
NewReq == [op |-> "none", pc |-> "start", user |-> "-", event_id |-> 0,
           status |-> "-", verified_only |-> FALSE,
           existingRow |-> FALSE, inserted |-> FALSE,
           batch |-> {}, res |-> "-",
           wrote |-> FALSE, addCalled |-> FALSE, fault |-> FALSE, delta |-> 0]

Reqs == BagToSet(requests)
Returned == {r \in Reqs : r.pc = "done"}
InFlight == {r \in Reqs : r.pc # "done"}

\* the requests still running: a response leaves the bag with the next step
Running == [r \in InFlight |-> requests[r]]

One(r) == SetToBag({r})

\* a new request arrives
Arrive(nr) ==
  /\ ops < MaxOps
  /\ ops' = ops + 1
  /\ requests' = Running (+) One(nr)
  /\ UNCHANGED <<purged, succeeded>>
  /\ UNCHANGED clientVars

\* request r takes a step and becomes nr
Step(r, nr) ==
  /\ requests' = (Running (-) One(r)) (+) One(nr)
  /\ ops' = ops
  /\ purged' = IF r.op = "retention" /\ r.pc = "r_event"
               THEN purged \cup {r.event_id} ELSE purged
  /\ succeeded' = IF nr.op = "join" /\ nr.res \in {"JOINED", "ALREADY_MEMBER"}
                  THEN succeeded \cup {<<nr.event_id, nr.user>>} ELSE succeeded
  /\ UNCHANGED clientVars

Return(r, result) == [r EXCEPT !.pc = "done", !.res = result]

\* ids the store has generated so far: the ids a client can name
Known == 1..(nextId - 1)

Rows(e) == {x \in event_participants : x[1] = e}

\* what this step adds to the participant_count of event e
CountChange(e) == events'[e].participant_count - events[e].participant_count

\* ------------------------------------------------ relational store rules
\* update_participant_count trigger, AFTER INSERT FOR EACH ROW
TriggerInsert(ev, e) ==
  [ev EXCEPT ![e].participant_count = @ + 1]

\* update_participant_count trigger, AFTER DELETE FOR EACH ROW
TriggerDelete(ev, e) ==
  [ev EXCEPT ![e].participant_count = @ - 1]

\* mutant: the table has no primary key, an insert never conflicts
InsertOutcome_NoPrimaryKey(e, u) ==
  IF events[e].status = "absent" THEN "fk" ELSE "ok"

\* INSERT INTO event_participants: outcome of the statement
\*   "fk"  - events(id) does not exist (foreign key violation)
\*   "dup" - PRIMARY KEY (event_id, user_id) violated, code 23505
\*   "ok"  - the row is inserted
InsertOutcome(e, u) ==
  IF events[e].status = "absent" THEN "fk"
  ELSE IF <<e, u>> \in event_participants THEN "dup"
  ELSE "ok"

\* DELETE FROM events WHERE id = e, with ON DELETE CASCADE on event_participants
DeleteEventRow(e) ==
  /\ events' = [events EXCEPT ![e] = NoEvent]
  /\ event_participants' = event_participants \ Rows(e)

\* DELETE FROM event_participants WHERE event_id = e AND user_id = u
DeleteParticipantRow(e, u) ==
  /\ event_participants' = event_participants \ {<<e, u>>}
  /\ events' = IF <<e, u>> \in event_participants
               THEN TriggerDelete(events, e) ELSE events

\* An event as a completed create-event leaves it: active, the host's
\* participant row counted by the trigger, the channel holding the host
Established(h, vo) ==
  /\ events = [e \in EventIds |->
                 IF e = 1 THEN [host_id |-> h, status |-> "active", verified_only |-> vo,
                                participant_count |-> 1, age |-> 0]
                 ELSE NoEvent]
  /\ nextId = 2
  /\ event_participants = {<<1, h>>}
  /\ channels = [e \in EventIds |->
                   IF e = 1 THEN [exists |-> TRUE, members |-> {h}, frozen |-> FALSE]
                   ELSE NoChannel]

\* An event as create-event and a later expire sweep leave it: expired, past
\* its expires_at, the channel frozen
Expired(h, vo) ==
  /\ events = [e \in EventIds |->
                 IF e = 1 THEN [host_id |-> h, status |-> "expired", verified_only |-> vo,
                                participant_count |-> 1, age |-> 1]
                 ELSE NoEvent]
  /\ nextId = 2
  /\ event_participants = {<<1, h>>}
  /\ channels = [e \in EventIds |->
                   IF e = 1 THEN [exists |-> TRUE, members |-> {h}, frozen |-> TRUE]
                   ELSE NoChannel]

Empty ==
  /\ events = [e \in EventIds |-> NoEvent]
  /\ nextId = 1
  /\ event_participants = {}
  /\ channels = [e \in EventIds |-> NoChannel]

\* no request body under validation
NoBody == [title |-> [type |-> "undefined", lead |-> 0, core |-> 0, trail |-> 0],
           category |-> "undefined",
           expires_at |-> [type |-> "undefined", valid |-> FALSE, time |-> 0],
           latitude |-> "undefined", longitude |-> "undefined"]

CreateIdle == body = NoBody /\ now = 0 /\ response = "-"

\* null of a coordinates ref
None == -1

\* null of locationStore.city
NoCity == "null"

\* kind names the callback; id, position, status and city are its payload,
\* present tells whether the rendered set held the id before it ran, issued
\* whether a position sample called fetchEvents
NoStep == [kind |-> "-", id |-> 0, position |-> None, status |-> "-", city |-> "-",
           present |-> FALSE, issued |-> FALSE]

\* the map screen is not mounted
MapIdle ==
  /\ isMounted = FALSE
  /\ init = [pc |-> "idle", position |-> None]
  /\ coordinates = None
  /\ city = NoCity
  /\ lastFetchRef = None
  /\ channelRef = 0
  /\ subs = {}
  /\ subscribed = 0
  /\ locationWatchRef = FALSE
  /\ watchActive = FALSE
  /\ callbacks = {}
  /\ answered = 0
  /\ samples = 0
  /\ mapEvents = {}
  /\ step = NoStep

NoSave == [pc |-> "idle", label |-> "", before |-> <<"", "">>]

\* the chat screen is not open
MeetupIdle ==
  /\ streamChannel = FALSE
  /\ meetup_point = ""
  /\ meetup_point_label = ""
  /\ save = NoSave
  /\ accepted = <<>>
  /\ clock = 0
  /\ saves = 0

NoCall == [pc |-> "idle", response |-> "-"]

\* no account is being deleted
AccountIdle ==
  /\ authUsers = Users
  /\ profiles = Users
  /\ streamUsers = Users
  /\ calls = [u \in Users |-> NoCall]

SideIdle == MeetupIdle /\ AccountIdle

ClientIdle == CreateIdle /\ MapIdle /\ SideIdle

NoRequests ==
  /\ requests = EmptyBag
  /\ ops = 0
  /\ providerFailed = FALSE
  /\ purged = {}
  /\ succeeded = {}

\* The stores start empty, or with one event a completed create-event left,
\* or with that event expired by a completed sweep
Init ==
  /\ \/ Empty
     \/ \E h \in Users, vo \in BOOLEAN : Established(h, vo)
     \/ \E h \in Users : Expired(h, FALSE)
  /\ NoRequests
  /\ ClientIdle

\* =========================================================== create-event
\* mutant: the failure branch returns without deleting the event row
CreateRollback_Skip(e) == UNCHANGED <<events, event_participants>>

\* rollback of create-event: delete the event row just inserted
CreateRollback(e) == DeleteEventRow(e)

\* count of the caller's events with status = active
ActiveCount(u) ==
  Cardinality({e \in EventIds : events[e].host_id = u /\ events[e].status = "active"})

\* free users can only have 1 active event
LimitReached(u, activeCount) ==
  verification_status(u) # "verified" /\ activeCount >= 1

\* mutant: participant_count left to the schema default of 1
NewEventRow_DefaultCount(u, vo) ==
  [host_id |-> u, status |-> "active", verified_only |-> vo,
   participant_count |-> 1, age |-> 0]

\* the row create-event inserts: status active, participant_count 0
NewEventRow(u, vo) ==
  [host_id |-> u, status |-> "active", verified_only |-> vo,
   participant_count |-> 0, age |-> 0]

\* mutant: the channel is created without its members option
NewChannel_NoMembers(u) ==
  [exists |-> TRUE, members |-> {}, frozen |-> FALSE]

\* the channel create-event creates: the host is its only member
NewChannel(u) ==
  [exists |-> TRUE, members |-> {u}, frozen |-> FALSE]

\* mutant: the event row is inserted before the limit is looked at
CreateCheckLimit_InsertFirst ==
  /\ \E u \in Users, vo \in BOOLEAN :
       LET r0 == [NewReq EXCEPT !.op = "create", !.user = u, !.verified_only = vo,
                                !.event_id = nextId, !.status = "active", !.wrote = TRUE]
       IN /\ events' = [events EXCEPT ![nextId] = NewEventRow(u, vo)]
          /\ nextId' = nextId + 1
          /\ Arrive(IF LimitReached(u, ActiveCount(u)) THEN Return(r0, "LIMIT_REACHED")
                    ELSE [r0 EXCEPT !.pc = "c_insert_host"])
  /\ UNCHANGED <<event_participants, channels, providerFailed>>

\* Step 3: profile and active-event count read in parallel, free-user limit
CreateCheckLimit ==
  /\ \E u \in Users, vo \in BOOLEAN, ok \in BOOLEAN :
       LET r0 == [NewReq EXCEPT !.op = "create", !.user = u, !.verified_only = vo]
       IN Arrive(IF ~ok THEN Return([r0 EXCEPT !.fault = TRUE], "INTERNAL_ERROR")
                 ELSE IF LimitReached(u, ActiveCount(u)) THEN Return(r0, "LIMIT_REACHED")
                 ELSE [r0 EXCEPT !.pc = "c_insert_event"])
  /\ UNCHANGED <<events, nextId, event_participants, channels, providerFailed>>

\* Step 4: insert the event row with status active and participant_count 0
CreateInsertEvent ==
  \E r \in InFlight, ok \in BOOLEAN :
    /\ r.pc = "c_insert_event"
    /\ IF ok
       THEN /\ events' = [events EXCEPT ![nextId] = NewEventRow(r.user, r.verified_only)]
            /\ nextId' = nextId + 1
            /\ Step(r, [r EXCEPT !.pc = "c_insert_host", !.event_id = nextId,
                                 !.status = "active", !.wrote = TRUE])
       ELSE /\ Step(r, Return([r EXCEPT !.fault = TRUE], "CREATE_FAILED"))
            /\ UNCHANGED <<events, nextId>>
    /\ UNCHANGED <<event_participants, channels, providerFailed>>

\* Step 5: insert the host into event_participants; on failure delete the
\* event and return 500
CreateInsertHost ==
  \E r \in InFlight, ok \in BOOLEAN :
    /\ r.pc = "c_insert_host"
    /\ IF ok /\ InsertOutcome(r.event_id, r.user) = "ok"
       THEN /\ event_participants' = event_participants \cup {<<r.event_id, r.user>>}
            /\ events' = TriggerInsert(events, r.event_id)
            /\ Step(r, [r EXCEPT !.pc = "c_channel", !.inserted = TRUE,
                                 !.delta = @ + CountChange(r.event_id)])
       ELSE /\ CreateRollback(r.event_id)
            /\ Step(r, Return([r EXCEPT !.fault = TRUE], "HOST_JOIN_FAILED"))
    /\ UNCHANGED <<nextId, channels, providerFailed>>

\* Step 6: channel('messaging', event_<id>, {members: [host]}).create();
\* on failure delete the event row (participants cascade) and return 500
CreateChannel ==
  \E r \in InFlight, ok \in BOOLEAN :
    /\ r.pc = "c_channel"
    /\ IF ok
       THEN /\ channels' = [channels EXCEPT ![r.event_id] = NewChannel(r.user)]
            /\ Step(r, Return(r, "CREATED"))
            /\ UNCHANGED <<events, event_participants, providerFailed>>
       ELSE /\ CreateRollback(r.event_id)
            /\ Step(r, Return([r EXCEPT !.fault = TRUE], "CHAT_INIT_FAILED"))
            /\ providerFailed' = TRUE
            /\ UNCHANGED channels
    /\ UNCHANGED nextId

\* ============================================================= join-event
\* channel.addMembers([user]); adding a present member leaves the list as it is
AddMembers(ch, e, u) ==
  [ch EXCEPT ![e].members = @ \cup {u}]

\* mutant: the catch branch returns without deleting the participant row
JoinRollback_Skip(e, u) == UNCHANGED <<events, event_participants>>

\* rollback of join-event: delete the participant row
JoinRollback(e, u) == DeleteParticipantRow(e, u)

\* mutant: the status of the loaded row is not looked at
JoinGate_NoStatusCheck(ev, u, okProfile) ==
  IF ev.status = "absent" THEN "NOT_FOUND"
  ELSE IF ev.verified_only /\ (~okProfile \/ verification_status(u) # "verified")
    THEN "VERIFIED_ONLY"
  ELSE "PASS"

\* Steps 3 and 4 on the loaded row ev (NoEvent when the fetch gave none):
\* 404 when missing, EVENT_EXPIRED when not active, VERIFIED_ONLY when the
\* event is gated and the profile read fails or is not verified
JoinGate(ev, u, okProfile) ==
  IF ev.status = "absent" THEN "NOT_FOUND"
  ELSE IF ev.status # "active" THEN "EVENT_EXPIRED"
  ELSE IF ev.verified_only /\ (~okProfile \/ verification_status(u) # "verified")
    THEN "VERIFIED_ONLY"
  ELSE "PASS"

\* Steps 3 and 4: fetch the event and apply the gate
JoinFetchEvent ==
  /\ \E u \in Users, e \in Known, ok \in BOOLEAN, okProfile \in BOOLEAN :
       LET ev == IF ok THEN events[e] ELSE NoEvent
           r0 == [NewReq EXCEPT !.op = "join", !.user = u, !.event_id = e,
                                !.status = ev.status,
                                !.verified_only = ev.verified_only,
                                !.fault = ~ok \/ (ev.status = "active"
                                                  /\ ev.verified_only /\ ~okProfile)]
           gate == JoinGate(ev, u, okProfile)
       IN Arrive(IF gate = "PASS" THEN [r0 EXCEPT !.pc = "j_select"]
                 ELSE Return(r0, gate))
  /\ UNCHANGED <<events, nextId, event_participants, channels, providerFailed>>

\* Step 5: is the caller already a participant? (maybeSingle, error ignored)
JoinSelectExisting ==
  \E r \in InFlight, ok \in BOOLEAN :
    /\ r.pc = "j_select"
    /\ LET found == ok /\ <<r.event_id, r.user>> \in event_participants
       IN Step(r, [r EXCEPT !.existingRow = found, !.fault = @ \/ ~ok,
                            !.pc = IF found THEN "j_add_existing" ELSE "j_insert"])
    /\ UNCHANGED <<events, nextId, event_participants, channels, providerFailed>>

\* Step 5, existingRow branch: addMembers; a failure is logged, success returned
JoinAddExisting ==
  \E r \in InFlight, ok \in BOOLEAN :
    /\ r.pc = "j_add_existing"
    /\ IF ok /\ channels[r.event_id].exists
       THEN /\ channels' = AddMembers(channels, r.event_id, r.user)
            /\ Step(r, Return([r EXCEPT !.addCalled = TRUE, !.wrote = TRUE],
                              "ALREADY_MEMBER"))
            /\ UNCHANGED providerFailed
       ELSE /\ UNCHANGED channels
            /\ Step(r, Return([r EXCEPT !.addCalled = TRUE, !.fault = TRUE],
                              "ALREADY_MEMBER"))
            /\ providerFailed' = TRUE
    /\ UNCHANGED <<events, nextId, event_participants>>

\* Step 5: insert the participant row; 23505 is answered as already_member,
\* any other error as 500
JoinInsert ==
  \E r \in InFlight, ok \in BOOLEAN :
    /\ r.pc = "j_insert"
    /\ LET out == InsertOutcome(r.event_id, r.user)
       IN IF ok /\ out = "ok"
          THEN /\ event_participants' = event_participants \cup {<<r.event_id, r.user>>}
               /\ events' = TriggerInsert(events, r.event_id)
               /\ Step(r, [r EXCEPT !.pc = "j_add_new", !.inserted = TRUE,
                                    !.wrote = TRUE, !.delta = @ + CountChange(r.event_id)])
          ELSE /\ UNCHANGED <<events, event_participants>>
               /\ Step(r, IF ok /\ out = "dup" THEN Return(r, "ALREADY_MEMBER")
                          ELSE Return([r EXCEPT !.fault = TRUE], "JOIN_FAILED"))
    /\ UNCHANGED <<nextId, channels, providerFailed>>

\* Step 6: addMembers after a new insert; on failure delete the participant
\* row and return 500
JoinAddNew ==
  \E r \in InFlight, ok \in BOOLEAN :
    /\ r.pc = "j_add_new"
    /\ IF ok /\ channels[r.event_id].exists
       THEN /\ channels' = AddMembers(channels, r.event_id, r.user)
            /\ Step(r, Return([r EXCEPT !.addCalled = TRUE], "JOINED"))
            /\ UNCHANGED <<events, event_participants, providerFailed>>
       ELSE /\ JoinRollback(r.event_id, r.user)
            /\ Step(r, Return([r EXCEPT !.addCalled = TRUE, !.fault = TRUE,
                                        !.delta = @ + CountChange(r.event_id)],
                              "CHAT_FAILED"))
            /\ providerFailed' = TRUE
            /\ UNCHANGED channels
    /\ UNCHANGED nextId

\* ============================================================ delete-event
\* Step 1: authorize, the caller must be the host
DeleteAuthorize ==
  /\ \E u \in Users, e \in Known :
       LET r0 == [NewReq EXCEPT !.op = "delete", !.user = u, !.event_id = e,
                                !.status = events[e].status]
       IN Arrive(IF events[e].status = "absent" THEN Return(r0, "NOT_FOUND")
                 ELSE IF events[e].host_id # u THEN Return(r0, "FORBIDDEN")
                 ELSE [r0 EXCEPT !.pc = "d_channel"])
  /\ UNCHANGED <<events, nextId, event_participants, channels, providerFailed>>

\* mutant: a failed channel removal is logged and the saga goes on to step 3
DeleteChannel_NoAbort ==
  \E r \in InFlight, ok \in BOOLEAN :
    /\ r.pc = "d_channel"
    /\ channels' = IF ok THEN [channels EXCEPT ![r.event_id] = NoChannel] ELSE channels
    /\ Step(r, [r EXCEPT !.pc = "d_event", !.wrote = @ \/ ok, !.fault = ~ok])
    /\ providerFailed' = (providerFailed \/ ~ok)
    /\ UNCHANGED <<events, nextId, event_participants>>

\* Step 2: remove the channel and its members; on failure abort before step 3
DeleteChannel ==
  \E r \in InFlight, ok \in BOOLEAN :
    /\ r.pc = "d_channel"
    /\ IF ok /\ channels[r.event_id].exists
       THEN /\ channels' = [channels EXCEPT ![r.event_id] = NoChannel]
            /\ Step(r, [r EXCEPT !.pc = "d_event", !.wrote = TRUE])
            /\ UNCHANGED providerFailed
       ELSE /\ UNCHANGED channels
            /\ Step(r, Return([r EXCEPT !.fault = TRUE], "DELETE_FAILED"))
            /\ providerFailed' = TRUE
    /\ UNCHANGED <<events, nextId, event_participants>>

\* Step 3: delete the event row, participants cascade
DeleteRow ==
  \E r \in InFlight :
    /\ r.pc = "d_event"
    /\ DeleteEventRow(r.event_id)
    /\ Step(r, Return(r, "DELETED"))
    /\ UNCHANGED <<nextId, channels, providerFailed>>

\* ================================================================== clock
\* age 0: expires_at > now;  1: expires_at <= now;  2: expires_at <= now - 7d.
\* expires_at is at least one hour after the create request was validated, so
\* an event does not come due while its own create request runs.  Only the
\* expire sweep reads age 1 (on active rows) and only the retention sweep reads
\* age 2 (on expired rows), so the clock is advanced where it can be observed.
Tick ==
  \E e \in EventIds :
    /\ \/ events[e].status = "active" /\ events[e].age = 0
       \/ events[e].status = "expired" /\ events[e].age = 1
    /\ \A r \in InFlight : ~(r.op = "create" /\ r.event_id = e)
    /\ events' = [events EXCEPT ![e].age = @ + 1]
    /\ requests' = Running
    /\ UNCHANGED <<nextId, event_participants, channels, ops, providerFailed, purged,
                   succeeded>>
    /\ UNCHANGED clientVars

Lowest(S) == CHOOSE e \in S : \A f \in S : e <= f

\* next item of a sweep, or the end of the batch
NextItem(r, pcNext) ==
  LET rest == r.batch \ {r.event_id}
  IN IF rest = {} THEN [r EXCEPT !.pc = "done", !.res = "SWEPT", !.batch = {}]
     ELSE [r EXCEPT !.pc = pcNext, !.batch = rest, !.event_id = Lowest(rest)]

\* ============================================================ expire sweep
\* select the events with status = active and expires_at <= now
ExpireSelect ==
  /\ LET due == {e \in EventIds : events[e].status = "active" /\ events[e].age >= 1}
         r0 == [NewReq EXCEPT !.op = "expire", !.batch = due]
     IN Arrive(IF due = {} THEN Return(r0, "SWEPT")
               ELSE [r0 EXCEPT !.pc = "x_status", !.event_id = Lowest(due)])
  /\ UNCHANGED <<events, nextId, event_participants, channels, providerFailed>>

\* mutant: the status write is not conditional on status = active
ExpireStatus_Unconditional ==
  \E r \in InFlight, ok \in BOOLEAN :
    /\ r.pc = "x_status"
    /\ IF ok /\ events[r.event_id].status # "absent"
       THEN /\ events' = [events EXCEPT ![r.event_id].status = "expired"]
            /\ Step(r, [r EXCEPT !.pc = "x_freeze", !.wrote = TRUE])
       ELSE /\ UNCHANGED events
            /\ Step(r, NextItem([r EXCEPT !.fault = @ \/ ~ok], "x_status"))
    /\ UNCHANGED <<nextId, event_participants, channels, providerFailed>>

\* update events set status = expired where id = e and status = active
ExpireStatus ==
  \E r \in InFlight, ok \in BOOLEAN :
    /\ r.pc = "x_status"
    /\ IF ok /\ events[r.event_id].status = "active"
       THEN /\ events' = [events EXCEPT ![r.event_id].status = "expired"]
            /\ Step(r, [r EXCEPT !.pc = "x_freeze", !.wrote = TRUE])
       ELSE /\ UNCHANGED events
            /\ Step(r, NextItem([r EXCEPT !.fault = @ \/ ~ok], "x_status"))
    /\ UNCHANGED <<nextId, event_participants, channels, providerFailed>>

\* setFrozen(event_<e>, true)
ExpireFreeze ==
  \E r \in InFlight, ok \in BOOLEAN :
    /\ r.pc = "x_freeze"
    /\ LET done == ok /\ channels[r.event_id].exists
       IN /\ channels' = IF done THEN [channels EXCEPT ![r.event_id].frozen = TRUE]
                         ELSE channels
          /\ Step(r, NextItem([r EXCEPT !.fault = @ \/ ~done], "x_status"))
          /\ providerFailed' = (providerFailed \/ ~done)
    /\ UNCHANGED <<events, nextId, event_participants>>

\* ================================================================= reopen
\* host-initiated: authorize
ReopenAuthorize ==
  /\ \E u \in Users, e \in Known :
       LET r0 == [NewReq EXCEPT !.op = "reopen", !.user = u, !.event_id = e,
                                !.status = events[e].status]
       IN Arrive(IF events[e].status = "absent" THEN Return(r0, "NOT_FOUND")
                 ELSE IF events[e].host_id # u THEN Return(r0, "FORBIDDEN")
                 ELSE [r0 EXCEPT !.pc = "o_unfreeze"])
  /\ UNCHANGED <<events, nextId, event_participants, channels, providerFailed>>

\* setFrozen(event_<e>, false); on a missing channel it is a no-op
ReopenUnfreeze ==
  \E r \in InFlight, ok \in BOOLEAN :
    /\ r.pc = "o_unfreeze"
    /\ IF ok /\ channels[r.event_id].exists
       THEN /\ channels' = [channels EXCEPT ![r.event_id].frozen = FALSE]
            /\ Step(r, Return([r EXCEPT !.wrote = TRUE], "REOPENED"))
            /\ UNCHANGED providerFailed
       ELSE /\ UNCHANGED channels
            /\ Step(r, Return([r EXCEPT !.fault = TRUE], "REOPEN_NOOP"))
            /\ providerFailed' = TRUE
    /\ UNCHANGED <<events, nextId, event_participants>>

\* ========================================================= retention sweep
\* mutant: the rows are selected by age alone, whatever their status
RetentionSelect_AnyStatus ==
  /\ LET old == {e \in EventIds : events[e].status # "absent" /\ events[e].age >= 1}
         r0 == [NewReq EXCEPT !.op = "retention", !.batch = old]
     IN Arrive(IF old = {} THEN Return(r0, "SWEPT")
               ELSE [r0 EXCEPT !.pc = "r_channel", !.event_id = Lowest(old)])
  /\ UNCHANGED <<events, nextId, event_participants, channels, providerFailed>>

\* select the events with status = expired and expires_at <= now - 7 days
RetentionSelect ==
  /\ LET old == {e \in EventIds : events[e].status = "expired" /\ events[e].age = 2}
         r0 == [NewReq EXCEPT !.op = "retention", !.batch = old]
     IN Arrive(IF old = {} THEN Return(r0, "SWEPT")
               ELSE [r0 EXCEPT !.pc = "r_channel", !.event_id = Lowest(old)])
  /\ UNCHANGED <<events, nextId, event_participants, channels, providerFailed>>

\* delete the channel outright; on failure the item waits for the next sweep
RetentionChannel ==
  \E r \in InFlight, ok \in BOOLEAN :
    /\ r.pc = "r_channel"
    /\ IF ok /\ channels[r.event_id].exists
       THEN /\ channels' = [channels EXCEPT ![r.event_id] = NoChannel]
            /\ Step(r, [r EXCEPT !.pc = "r_event", !.wrote = TRUE])
            /\ UNCHANGED providerFailed
       ELSE /\ UNCHANGED channels
            /\ Step(r, NextItem([r EXCEPT !.fault = TRUE], "r_channel"))
            /\ providerFailed' = TRUE
    /\ UNCHANGED <<events, nextId, event_participants>>

\* delete the event row, participants cascade
RetentionRow ==
  \E r \in InFlight :
    /\ r.pc = "r_event"
    /\ DeleteEventRow(r.event_id)
    /\ Step(r, NextItem(r, "r_channel"))
    /\ UNCHANGED <<nextId, channels, providerFailed>>

Next ==
  \/ CreateCheckLimit
  \/ CreateInsertEvent
  \/ CreateInsertHost
  \/ CreateChannel
  \/ JoinFetchEvent
  \/ JoinSelectExisting
  \/ JoinAddExisting
  \/ JoinInsert
  \/ JoinAddNew
  \/ DeleteAuthorize
  \/ DeleteChannel
  \/ DeleteRow
  \/ Tick
  \/ ExpireSelect
  \/ ExpireStatus
  \/ ExpireFreeze
  \/ ReopenAuthorize
  \/ ReopenUnfreeze
  \/ RetentionSelect
  \/ RetentionChannel
  \/ RetentionRow

Spec == Init /\ [][Next]_vars

\* ================================================ create-event validation
\* The values a JSON body field can take, as far as the handler tells them
\* apart.  A title string is lead spaces, a core that starts and ends with a
\* non-space character, and trail spaces.
TitleCores == {9, 10, 60, 61}
TitleValues ==
  {NoBody.title} \cup
  {[type |-> "string", lead |-> l, core |-> c, trail |-> t] :
     l \in 0..1, c \in TitleCores, t \in 0..1}
TextValues == {"string", "undefined"}
NumberValues == {"finite", "NaN", "Infinity", "undefined"}

ONE_HOUR_MS == 60 * 60 * 1000

\* expires_at - now of the bodies tried, around both ends of the window
Offsets == {ONE_HOUR_MS - 1, ONE_HOUR_MS, ONE_HOUR_MS + 1,
            26 * ONE_HOUR_MS - 1, 26 * ONE_HOUR_MS, 26 * ONE_HOUR_MS + 1}
Nows == {0, 1000}
ExpiresValues(n) ==
  {NoBody.expires_at, [type |-> "string", valid |-> FALSE, time |-> 0]} \cup
  {[type |-> "string", valid |-> TRUE, time |-> n + d] : d \in Offsets}

\* String.prototype.trim and .length
Trim(t) == [t EXCEPT !.lead = 0, !.trail = 0]
Length(t) == t.lead + t.core + t.trail

\* typeof v for a numeric field, and isFinite(v)
TypeofNumber(v) == IF v = "undefined" THEN "undefined" ELSE "number"
IsFinite(v) == v = "finite"

\* mutant: the lower end of the window is exclusive
OutsideWindow_Exclusive(diffMs) ==
  diffMs <= ONE_HOUR_MS \/ diffMs > 26 * ONE_HOUR_MS

\* diffMs < ONE_HOUR_MS || diffMs > 26 * ONE_HOUR_MS
OutsideWindow(diffMs) ==
  diffMs < ONE_HOUR_MS \/ diffMs > 26 * ONE_HOUR_MS

\* Step 2 of create-event: the answer to body b at clock n; "CONTINUE" when
\* the handler goes on to the limit check
Validate(b, n) ==
  IF \/ b.title.type # "string"
     \/ Length(Trim(b.title)) < 10 \/ Length(Trim(b.title)) > 60
     \/ b.category # "string"
     \/ b.expires_at.type # "string"
     \/ TypeofNumber(b.latitude) # "number" \/ ~IsFinite(b.latitude)
     \/ TypeofNumber(b.longitude) # "number" \/ ~IsFinite(b.longitude)
  THEN "400 Invalid request body"
  ELSE IF ~b.expires_at.valid
  THEN "400 Invalid expires_at date"
  ELSE IF OutsideWindow(b.expires_at.time - n)
  THEN "400 expires_at must be between 1 and 26 hours from now"
  ELSE "CONTINUE"

ValidateInit ==
  /\ Empty
  /\ NoRequests
  /\ now \in Nows
  /\ \E t \in TitleValues, c \in TextValues, x \in ExpiresValues(now),
        la \in NumberValues, lo \in NumberValues :
       body = [title |-> t, category |-> c, expires_at |-> x,
               latitude |-> la, longitude |-> lo]
  /\ response = "-"
  /\ MapIdle
  /\ SideIdle

\* the handler validates the body; every 400 is returned before the first
\* call to a store
CreateValidate ==
  /\ response = "-"
  /\ response' = Validate(body, now)
  /\ UNCHANGED <<body, now>>
  /\ UNCHANGED <<vars, mapVars, sideVars>>

ValidateNext == CreateValidate

ValidateSpec == ValidateInit /\ [][ValidateNext]_<<vars, clientVars>>

\* ============================================================== map screen
\* number of position samples the watcher delivers
MaxSamples == 2

FETCH_RADIUS_METERS == 5000
REFETCH_THRESHOLD_METERS == 500

\* Positions are points of one meridian, given in metres along it, where the
\* haversine distance is the length of the arc between them.
haversineMeters(a, b) == IF a >= b THEN a - b ELSE b - a

\* where the user can be: 0 and 500 are at the refetch threshold from each
\* other, 1001 is beyond it from both
UserPositions == {0, 500, 1001}

\* events of the world: event 1 is outside the radius of 0 and of 500 and
\* inside the radius of 1001, event 2 inside the radius of 0, at the radius
\* of 500 and outside the radius of 1001
MapIds == {1, 2}
WorldPosition(i) == IF i = 1 THEN 5501 ELSE 0 - 4500
Counts == {1, 2}

\* the user is in Bangkok, event 1 in Phuket and event 2 in Bangkok
Cities == {"Bangkok", "Phuket"}
UserCity == "Bangkok"
WorldCity(i) == IF i = 1 THEN "Phuket" ELSE "Bangkok"

\* the options of the postgres_changes bindings carry no filter
NoFilter == "-"

\* Realtime delivers a change to a binding without a filter, or with a
\* filter city=eq.<c> when the row's city is c
Delivered(x, rowCity) == x.filter = NoFilter \/ x.filter = rowCity

\* dbEventToEvent of the rows of the world (their coordinates are finite)
MapRows == {[id |-> i, position |-> WorldPosition(i), participant_count |-> c] :
              i \in MapIds, c \in Counts}

\* get_nearby_events(lat, lng, radius_km): active events within the radius,
\* one row per id; which events are active is up to the store
QueryResults(p) ==
  {D \in SUBSET MapRows :
     /\ \A e \in D : haversineMeters(p, e.position) <= FETCH_RADIUS_METERS
     /\ \A e, f \in D : e.id = f.id => e = f}

\* mapStore
addEvent(evs, event) ==
  IF \E e \in evs : e.id = event.id THEN evs ELSE evs \cup {event}
updateEvent(evs, event) ==
  {IF e.id = event.id THEN event ELSE e : e \in evs}
removeEvent(evs, id) == {e \in evs : e.id # id}

\* fetchEvents(lat, lon) once the RPC has answered
fetchEvents(p, ok, data) ==
  /\ mapEvents' = IF ok THEN data ELSE mapEvents
  /\ lastFetchRef' = IF ok THEN p ELSE lastFetchRef

\* mutant: the previous channel is left open
subscribeRealtime_NoTeardown(userCoords) ==
  /\ subscribed' = subscribed + 1
  /\ subs' = subs \cup {[id |-> subscribed + 1, userCoords |-> userCoords,
                          filter |-> NoFilter, confirmed |-> FALSE]}
  /\ channelRef' = subscribed + 1

\* subscribeRealtime(userCoords): remove the channel of channelRef, open a new
\* one whose handlers close over userCoords, store it in channelRef
subscribeRealtime(userCoords) ==
  /\ subscribed' = subscribed + 1
  /\ subs' = {x \in subs : x.id # channelRef}
               \cup {[id |-> subscribed + 1, userCoords |-> userCoords,
                       filter |-> NoFilter, confirmed |-> FALSE]}
  /\ channelRef' = subscribed + 1

Ran(kind) == [NoStep EXCEPT !.kind = kind]

MapInit ==
  /\ Empty
  /\ NoRequests
  /\ CreateIdle
  /\ SideIdle
  /\ isMounted = TRUE
  /\ init = [pc |-> "start", position |-> None]
  /\ coordinates = None
  /\ city = NoCity
  /\ lastFetchRef = None
  /\ channelRef = 0
  /\ subs = {}
  /\ subscribed = 0
  /\ locationWatchRef = FALSE
  /\ watchActive = FALSE
  /\ callbacks = {}
  /\ answered = 0
  /\ samples = 0
  /\ mapEvents = {}
  /\ step = NoStep

\* init(): the setup_completed guard, then the permission request is awaited
InitStart ==
  /\ init.pc = "start"
  /\ \E setup_completed \in BOOLEAN :
       init' = [init EXCEPT !.pc = IF setup_completed THEN "permission" ELSE "stopped"]
  /\ step' = Ran("INIT")
  /\ UNCHANGED <<isMounted, coordinates, lastFetchRef, channelRef, subs, subscribed,
                 locationWatchRef, watchActive, callbacks, samples, mapEvents>>
  /\ UNCHANGED <<vars, createVars, sideVars>>
  /\ UNCHANGED <<city, answered>>

\* requestForegroundPermissionsAsync has answered; getCurrentPositionAsync is
\* awaited when the permission is granted
InitPermission ==
  /\ init.pc = "permission"
  /\ \E granted \in BOOLEAN :
       init' = [init EXCEPT !.pc = IF granted THEN "position" ELSE "stopped"]
  /\ step' = Ran("INIT")
  /\ UNCHANGED <<isMounted, coordinates, lastFetchRef, channelRef, subs, subscribed,
                 locationWatchRef, watchActive, callbacks, samples, mapEvents>>
  /\ UNCHANGED <<vars, createVars, sideVars>>
  /\ UNCHANGED <<city, answered>>

\* getCurrentPositionAsync has answered; the reverse geocode is awaited
InitPosition ==
  /\ init.pc = "position"
  /\ \E p \in UserPositions :
       IF isMounted
       THEN /\ coordinates' = p
            /\ init' = [pc |-> "geocode", position |-> p]
       ELSE /\ init' = [init EXCEPT !.pc = "stopped"]
            /\ UNCHANGED coordinates
  /\ step' = Ran("INIT")
  /\ UNCHANGED <<isMounted, lastFetchRef, channelRef, subs, subscribed,
                 locationWatchRef, watchActive, callbacks, samples, mapEvents>>
  /\ UNCHANGED <<vars, createVars, sideVars>>
  /\ UNCHANGED <<city, answered>>

\* reverseGeocodeAsync has answered with place.city ?? place.district ??
\* place.subregion ?? null, or has thrown; fetchEvents is awaited
InitGeocode ==
  /\ init.pc = "geocode"
  /\ init' = [init EXCEPT !.pc = "fetch"]
  /\ \E ok \in BOOLEAN, detectedCity \in {UserCity, NoCity} :
       city' = IF ok /\ isMounted THEN detectedCity ELSE city
  /\ UNCHANGED answered
  /\ step' = Ran("INIT")
  /\ UNCHANGED <<isMounted, coordinates, lastFetchRef, channelRef, subs, subscribed,
                 locationWatchRef, watchActive, callbacks, samples, mapEvents>>
  /\ UNCHANGED <<vars, createVars, sideVars>>

\* the initial fetchEvents has answered; when still mounted the feed is
\* subscribed and watchPositionAsync is awaited
InitFetch ==
  /\ init.pc = "fetch"
  /\ \E ok \in BOOLEAN, data \in QueryResults(init.position) :
       /\ fetchEvents(init.position, ok, data)
       /\ step' = [Ran(IF ok THEN "QUERY_OK" ELSE "QUERY_FAILED")
                     EXCEPT !.position = init.position]
  /\ IF isMounted
     THEN /\ subscribeRealtime(init.position)
          /\ init' = [init EXCEPT !.pc = "watch"]
     ELSE /\ init' = [init EXCEPT !.pc = "stopped"]
          /\ UNCHANGED <<channelRef, subs, subscribed>>
  /\ UNCHANGED <<isMounted, coordinates, locationWatchRef, watchActive, callbacks, samples>>
  /\ UNCHANGED <<vars, createVars, sideVars>>
  /\ UNCHANGED <<city, answered>>

\* mutant: the watcher is kept whatever isMounted says
InitWatch_NoGuard ==
  /\ init.pc = "watch"
  /\ locationWatchRef' = TRUE
  /\ watchActive' = TRUE
  /\ init' = [init EXCEPT !.pc = "done"]
  /\ step' = Ran("INIT")
  /\ UNCHANGED <<isMounted, coordinates, lastFetchRef, channelRef, subs, subscribed,
                 callbacks, samples, mapEvents>>
  /\ UNCHANGED <<vars, createVars, sideVars>>
  /\ UNCHANGED <<city, answered>>

\* watchPositionAsync has answered with the watcher: it is removed at once
\* when the screen has unmounted, and stored in locationWatchRef otherwise
InitWatch ==
  /\ init.pc = "watch"
  /\ IF isMounted
     THEN /\ locationWatchRef' = TRUE
          /\ watchActive' = TRUE
          /\ init' = [init EXCEPT !.pc = "done"]
     ELSE /\ init' = [init EXCEPT !.pc = "stopped"]
          /\ UNCHANGED <<locationWatchRef, watchActive>>
  /\ step' = Ran("INIT")
  /\ UNCHANGED <<isMounted, coordinates, lastFetchRef, channelRef, subs, subscribed,
                 callbacks, samples, mapEvents>>
  /\ UNCHANGED <<vars, createVars, sideVars>>
  /\ UNCHANGED <<city, answered>>

\* cleanup of the effect: the screen unmounts
Unmount ==
  /\ isMounted
  /\ isMounted' = FALSE
  /\ watchActive' = IF locationWatchRef THEN FALSE ELSE watchActive
  /\ subs' = IF channelRef # 0 THEN {x \in subs : x.id # channelRef} ELSE subs
  /\ channelRef' = 0
  /\ step' = Ran("UNMOUNT")
  /\ UNCHANGED <<init, coordinates, lastFetchRef, subscribed, locationWatchRef,
                 callbacks, samples, mapEvents>>
  /\ UNCHANGED <<vars, createVars, sideVars>>
  /\ UNCHANGED <<city, answered>>

\* mutant: the query is re-issued on every sample once a query has succeeded
MovedBeyondThreshold_Always(last, p) == last # None

\* if (last) { dist = haversineMeters(last, new); if (dist > REFETCH_THRESHOLD_METERS)
MovedBeyondThreshold(last, p) ==
  last # None /\ haversineMeters(last, p) > REFETCH_THRESHOLD_METERS

\* the watcher delivers a position sample: the callback stores it and, beyond
\* the threshold, calls fetchEvents and waits for it
Sample ==
  /\ watchActive
  /\ samples < MaxSamples
  /\ samples' = samples + 1
  /\ \E p \in UserPositions :
       IF isMounted
       THEN LET issued == MovedBeyondThreshold(lastFetchRef, p)
            IN /\ coordinates' = p
               /\ callbacks' = IF issued
                                THEN callbacks \cup {[n |-> samples + 1, position |-> p,
                                                   gone |-> {}]}
                                ELSE callbacks
               /\ step' = [Ran("SAMPLE") EXCEPT !.position = p, !.issued = issued]
       ELSE /\ step' = Ran("SAMPLE")
            /\ UNCHANGED <<coordinates, callbacks>>
  /\ UNCHANGED <<isMounted, init, lastFetchRef, channelRef, subs, subscribed,
                 locationWatchRef, watchActive, mapEvents>>
  /\ UNCHANGED <<vars, createVars, sideVars>>
  /\ UNCHANGED <<city, answered>>

\* the fetchEvents of a watch callback has answered; the callback
\* re-subscribes when the screen is still mounted
CallbackFetch ==
  /\ \E cb \in callbacks :
       /\ \E ok \in BOOLEAN, data \in QueryResults(cb.position) :
            /\ fetchEvents(cb.position, ok, data)
            /\ answered' = IF ok /\ cb.n > answered THEN cb.n ELSE answered
            /\ step' = [Ran(IF ok THEN "QUERY_OK" ELSE "QUERY_FAILED")
                          EXCEPT !.position = cb.position]
       /\ IF isMounted
          THEN subscribeRealtime(cb.position)
          ELSE UNCHANGED <<channelRef, subs, subscribed>>
       /\ callbacks' = callbacks \ {cb}
  /\ UNCHANGED <<isMounted, init, coordinates, locationWatchRef, watchActive, samples>>
  /\ UNCHANGED <<vars, createVars, sideVars>>
  /\ UNCHANGED city

\* the server confirms a subscription (status SUBSCRIBED)
Confirm ==
  /\ \E x \in subs :
       /\ ~x.confirmed
       /\ subs' = (subs \ {x}) \cup {[x EXCEPT !.confirmed = TRUE]}
  /\ step' = Ran("SUBSCRIBED")
  /\ UNCHANGED <<isMounted, init, coordinates, lastFetchRef, channelRef, subscribed,
                 locationWatchRef, watchActive, callbacks, samples, mapEvents>>
  /\ UNCHANGED <<vars, createVars, sideVars>>
  /\ UNCHANGED <<city, answered>>

Rendered(id) == \E e \in mapEvents : e.id = id

\* the callbacks in flight note that the feed has reported id expired or deleted
Reported(id) == {[cb EXCEPT !.gone = @ \cup {id}] : cb \in callbacks}

FeedFrame ==
  /\ UNCHANGED <<isMounted, init, coordinates, lastFetchRef, channelRef, subs, subscribed,
                 locationWatchRef, watchActive, samples>>
  /\ UNCHANGED <<vars, createVars, sideVars>>
  /\ UNCHANGED <<city, answered>>

EventStatus == {"active", "expired"}

\* dist <= FETCH_RADIUS_METERS
Admit(userCoords, event) ==
  haversineMeters(userCoords, event.position) <= FETCH_RADIUS_METERS

\* postgres_changes INSERT on events, delivered to a subscription
FeedInsert ==
  /\ \E x \in subs, row \in MapRows, status \in EventStatus :
       /\ x.confirmed
       /\ Delivered(x, WorldCity(row.id))
       /\ mapEvents' = IF status = "active" /\ Admit(x.userCoords, row)
                        THEN addEvent(mapEvents, row) ELSE mapEvents
       /\ UNCHANGED callbacks
       /\ step' = [Ran("INSERT") EXCEPT !.id = row.id, !.position = row.position,
                                         !.status = status, !.city = WorldCity(row.id),
                                         !.present = Rendered(row.id)]
  /\ FeedFrame

\* mutant: an expired event is updated in place
UpdateRemoves_Never(status) == FALSE

\* row.status === 'expired'
UpdateRemoves(status) == status = "expired"

\* postgres_changes UPDATE on events
FeedUpdate ==
  /\ \E x \in subs, row \in MapRows, status \in EventStatus :
       /\ x.confirmed
       /\ Delivered(x, WorldCity(row.id))
       /\ mapEvents' = IF UpdateRemoves(status) THEN removeEvent(mapEvents, row.id)
                        ELSE updateEvent(mapEvents, row)
       /\ callbacks' = IF status = "expired" THEN Reported(row.id) ELSE callbacks
       /\ step' = [Ran("UPDATE") EXCEPT !.id = row.id, !.position = row.position,
                                         !.status = status, !.city = WorldCity(row.id),
                                         !.present = Rendered(row.id)]
  /\ FeedFrame

\* postgres_changes DELETE on events; payload.old carries the primary key
FeedDelete ==
  /\ \E x \in subs, id \in MapIds :
       /\ x.confirmed
       /\ Delivered(x, WorldCity(id))
       /\ mapEvents' = removeEvent(mapEvents, id)
       /\ callbacks' = Reported(id)
       /\ step' = [Ran("DELETE") EXCEPT !.id = id, !.city = WorldCity(id),
                                         !.present = Rendered(id)]
  /\ FeedFrame

MapNext ==
  \/ InitStart
  \/ InitPermission
  \/ InitPosition
  \/ InitGeocode
  \/ InitFetch
  \/ InitWatch
  \/ Unmount
  \/ Sample
  \/ CallbackFetch
  \/ Confirm
  \/ FeedInsert
  \/ FeedUpdate
  \/ FeedDelete

MapSpec == MapInit /\ [][MapNext]_<<vars, clientVars>>

\* ============================================================ meetup point
\* number of saveMeetupPoint calls, and the last clock value
MaxSaves == 4
MaxClock == 2

\* a tick is half an hour
TicksPerHour == 2

\* what the host types: a text with or without spaces around it
LabelInputs == {[text |-> t, padded |-> p] : t \in {"", "cafe", "gate"}, p \in BOOLEAN}

\* label.trim()
TrimLabel(label) == label.text

MeetupInit ==
  /\ Established("u1", FALSE)
  /\ NoRequests
  /\ CreateIdle
  /\ MapIdle
  /\ AccountIdle
  /\ streamChannel = FALSE
  /\ meetup_point = ""
  /\ meetup_point_label = ""
  /\ save = NoSave
  /\ accepted = <<>>
  /\ clock = 0
  /\ saves = 0

MeetupFrame == UNCHANGED <<vars, createVars, mapVars, accountVars>>

\* setup(): ch.watch() has answered, setStreamChannel(ch)
ChannelWatch ==
  /\ ~streamChannel
  /\ streamChannel' = TRUE
  /\ UNCHANGED <<meetup_point, meetup_point_label, save, accepted, clock, saves>>
  /\ MeetupFrame

\* time passes
ClockTick ==
  /\ clock < MaxClock
  /\ clock' = clock + 1
  /\ UNCHANGED <<streamChannel, meetup_point, meetup_point_label, save, accepted, saves>>
  /\ MeetupFrame

\* saveMeetupPoint(label): returns at once on an empty label or without a
\* channel, and awaits streamChannel.updatePartial otherwise
SaveStart ==
  /\ save.pc \in {"idle", "returned", "done", "failed"}
  /\ saves < MaxSaves
  /\ saves' = saves + 1
  /\ \E label \in LabelInputs :
       LET trimmed == TrimLabel(label)
       IN save' = [pc |-> IF trimmed = "" \/ ~streamChannel THEN "returned" ELSE "stream",
                   label |-> trimmed,
                   before |-> <<meetup_point, meetup_point_label>>]
  /\ UNCHANGED <<streamChannel, meetup_point, meetup_point_label, accepted, clock>>
  /\ MeetupFrame

\* updatePartial({set: {meetup_point: {label}}}) has answered: the provider
\* stores the label, or the call throws and the catch branch shows the alert
SaveStream ==
  /\ save.pc = "stream"
  /\ \E ok \in BOOLEAN :
       IF ok
       THEN /\ meetup_point' = save.label
            /\ accepted' = Append(accepted, clock)
            /\ save' = [save EXCEPT !.pc = "db"]
       ELSE /\ save' = [save EXCEPT !.pc = "failed"]
            /\ UNCHANGED <<meetup_point, accepted>>
  /\ UNCHANGED <<streamChannel, meetup_point_label, clock, saves>>
  /\ MeetupFrame

\* update events set meetup_point_label = label where id = eventId has
\* answered; its error is not looked at
SaveDb ==
  /\ save.pc = "db"
  /\ \E ok \in BOOLEAN :
       meetup_point_label' = IF ok THEN save.label ELSE meetup_point_label
  /\ save' = [save EXCEPT !.pc = "done"]
  /\ UNCHANGED <<streamChannel, meetup_point, accepted, clock, saves>>
  /\ MeetupFrame

MeetupNext ==
  \/ ChannelWatch
  \/ ClockTick
  \/ SaveStart
  \/ SaveStream
  \/ SaveDb

MeetupSpec == MeetupInit /\ [][MeetupNext]_<<vars, clientVars>>

\* ===================================================== delete-user-account
AccountInit ==
  /\ Empty
  /\ NoRequests
  /\ CreateIdle
  /\ MapIdle
  /\ MeetupIdle
  /\ authUsers = Users
  /\ profiles = Users
  /\ streamUsers = Users
  /\ calls = [u \in Users |-> NoCall]

AccountFrame == UNCHANGED <<vars, createVars, mapVars, meetupVars>>

\* supabase.auth.getUser(jwt): 401 unless the token names a user of auth.users
AccountGetUser ==
  /\ \E u \in Users, valid \in BOOLEAN :
       /\ calls[u].pc \in {"idle", "done"}
       /\ calls' = [calls EXCEPT ![u] =
                      IF valid /\ u \in authUsers
                      THEN [pc |-> "stream", response |-> "-"]
                      ELSE [pc |-> "done", response |-> "401 Unauthorized"]]
  /\ UNCHANGED <<authUsers, profiles, streamUsers>>
  /\ AccountFrame

\* 1. streamServer.deleteUser(user.id, {hard_delete}) inside try/catch: a
\* failure is logged and the handler goes on
AccountDeleteStream ==
  /\ \E u \in Users, ok \in BOOLEAN :
       /\ calls[u].pc = "stream"
       /\ streamUsers' = IF ok THEN streamUsers \ {u} ELSE streamUsers
       /\ calls' = [calls EXCEPT ![u].pc = "auth"]
  /\ UNCHANGED <<authUsers, profiles>>
  /\ AccountFrame

\* 2. supabase.auth.admin.deleteUser(user.id): the rows of the user cascade;
\* 500 on error, success otherwise
AccountDeleteAuth ==
  /\ \E u \in Users, ok \in BOOLEAN :
       /\ calls[u].pc = "auth"
       /\ IF ok /\ u \in authUsers
          THEN /\ authUsers' = authUsers \ {u}
               /\ profiles' = profiles \ {u}
               /\ calls' = [calls EXCEPT ![u] = [pc |-> "done", response |-> "200 success"]]
          ELSE /\ UNCHANGED <<authUsers, profiles>>
               /\ calls' = [calls EXCEPT ![u] =
                              [pc |-> "done",
                               response |-> "500 Failed to delete user account"]]
  /\ UNCHANGED streamUsers
  /\ AccountFrame

AccountNext ==
  \/ AccountGetUser
  \/ AccountDeleteStream
  \/ AccountDeleteAuth

AccountSpec == AccountInit /\ [][AccountNext]_<<vars, clientVars>>

\* ================================================================= claims
Member(e, u) == channels[e].exists /\ u \in channels[e].members
Exists(e) == events[e].status # "absent"
Joins == {r \in Reqs : r.op = "join"}
Creates == {r \in Reqs : r.op = "create"}

\* C1: whenever no request or sweep is in flight, a participant row (e, u)
\* exists exactly when u is a member of the channel event_<e>.
C1_RowsMatchMembers ==
  InFlight = {} =>
    \A e \in EventIds, u \in Users : (<<e, u>> \in event_participants) <=> Member(e, u)

\* C2: a JoinEvent(u, e) call that was admitted and saw no failure answers
\* JOINED when it inserted the row and ALREADY_MEMBER when it did not; when it
\* returns last (no other join of u to e is running), no provider call has
\* failed and e is still active with its channel, the row (e, u) exists, it is
\* counted once, and u is a member of the channel.
C2_JoinIdempotent ==
  \A r \in Returned :
    (r.op = "join" /\ r.res \notin {"NOT_FOUND", "EVENT_EXPIRED", "VERIFIED_ONLY"}
       /\ ~r.fault)
    => /\ r.res = IF r.inserted THEN "JOINED" ELSE "ALREADY_MEMBER"
       /\ ( /\ ~providerFailed
            /\ events[r.event_id].status = "active"
            /\ channels[r.event_id].exists
            /\ \A q \in InFlight :
                 ~(q.op = "join" /\ q.user = r.user /\ q.event_id = r.event_id) )
          => /\ <<r.event_id, r.user>> \in event_participants
             /\ r.user \in channels[r.event_id].members
             /\ events[r.event_id].participant_count = Cardinality(Rows(r.event_id))

\* C2 witness: a call answered ALREADY_MEMBER after its insert hit the
\* uniqueness constraint, returning last with the row and the membership in place
C2_Witness ==
  \E r \in Returned :
    /\ r.op = "join" /\ r.res = "ALREADY_MEMBER" /\ ~r.existingRow /\ ~r.fault
    /\ ~providerFailed /\ InFlight = {}
    /\ events[r.event_id].status = "active"
    /\ r.user # events[r.event_id].host_id
    /\ <<r.event_id, r.user>> \in event_participants
    /\ Member(r.event_id, r.user)

\* C3: in every reachable state, participant_count of every event row equals
\* the number of participant rows of that event.
C3_CountMatchesRows ==
  \A e \in EventIds : Exists(e) => events[e].participant_count = Cardinality(Rows(e))

\* C3 witness: an event with two participant rows while a join is still running
C3_Witness ==
  \E e \in EventIds :
    /\ Cardinality(Rows(e)) = 2
    /\ \E r \in InFlight : r.op = "join" /\ r.event_id = e /\ r.pc = "j_add_new"

C5_NoInsertAfterExpiry ==
  [][\A e \in EventIds, u \in Users :
       (<<e, u>> \notin event_participants /\ <<e, u>> \in event_participants')
       => events[e].status = "active"]_vars

\* C5 (sweep side): the expire sweep has set an event to expired while a join
\* that loaded it as active is about to insert its row
C5_RaceState ==
  \E r \in InFlight :
    r.op = "join" /\ r.pc = "j_insert" /\ events[r.event_id].status = "expired"

C7_AddMembersOnEverySuccess ==
  \A r \in Returned :
    (r.op = "join" /\ r.res \in {"JOINED", "ALREADY_MEMBER"}) => r.addCalled

\* C8: the step in which CreateEvent returns LIMIT_REACHED, or JoinEvent
\* returns EVENT_EXPIRED or VERIFIED_ONLY, leaves both stores as they were, and
\* the call has written nothing before it.
C8_SoftRejectWritesNothing ==
  [][\A r \in Returned' :
       r.res \in {"LIMIT_REACHED", "EVENT_EXPIRED", "VERIFIED_ONLY"}
       => (tables' = tables /\ ~r.wrote /\ r.delta = 0)]_vars

\* C8 witness: a free user who hosts an active event is answered LIMIT_REACHED
C8_Witness ==
  \E r \in Returned :
    /\ r.op = "create" /\ r.res = "LIMIT_REACHED"
    /\ \E e \in EventIds : events[e].host_id = r.user /\ events[e].status = "active"

C10_JoinGated ==
  \A r \in Joins :
    /\ (r.pc \in {"j_select", "j_insert", "j_add_existing", "j_add_new"}
          \/ r.inserted \/ r.addCalled \/ r.wrote)
       => /\ r.status = "active"
          /\ r.verified_only => verification_status(r.user) = "verified"
    /\ r.pc = "done"
       => /\ r.status = "absent" => r.res = "NOT_FOUND"
          /\ r.status \notin {"absent", "active"} => r.res = "EVENT_EXPIRED"
          /\ (r.status = "active" /\ r.verified_only
                /\ verification_status(r.user) # "verified") => r.res = "VERIFIED_ONLY"

\* C10 witness: a verified caller has joined a verified_only event
C10_Witness ==
  \E r \in Returned :
    r.op = "join" /\ r.res = "JOINED" /\ r.verified_only

\* the expiry offset of the body, when expires_at parses
DiffMs == body.expires_at.time - now
Rejected == response \notin {"-", "CONTINUE"}
TitleAndPointOk ==
  /\ body.title.type = "string"
  /\ body.title.core >= 10 /\ body.title.core <= 60
  /\ body.latitude = "finite" /\ body.longitude = "finite"
WellTyped ==
  body.category = "string" /\ body.expires_at.type = "string" /\ body.expires_at.valid

\* C11 as stated: CreateEvent answers a validation error and writes nothing
\* unless the trimmed title has 10 to 60 characters, latitude and longitude
\* are finite and expires_at - now is more than 1 hour and at most 26 hours.
C11_ValidationWindow ==
  response # "-" =>
    (~(TitleAndPointOk /\ WellTyped /\ DiffMs > ONE_HOUR_MS /\ DiffMs <= 26 * ONE_HOUR_MS)
       => Rejected /\ Empty)

\* C11 amended: CreateEvent answers a validation error and writes nothing
\* unless the trimmed title has 10 to 60 characters, latitude and longitude
\* are finite and expires_at - now is at least 1 hour and at most 26 hours;
\* a well-formed body with expires_at - now of exactly 1 hour or exactly 26
\* hours passes the validation.
C11_ValidationWindowAmended ==
  response # "-" =>
    /\ ~(TitleAndPointOk /\ WellTyped /\ DiffMs >= ONE_HOUR_MS /\ DiffMs <= 26 * ONE_HOUR_MS)
         => Rejected /\ Empty
    /\ (TitleAndPointOk /\ WellTyped /\ DiffMs \in {ONE_HOUR_MS, 26 * ONE_HOUR_MS})
         => response = "CONTINUE"

\* C11 witness: a body with expires_at exactly one hour ahead has been validated
C11_Witness ==
  response # "-" /\ TitleAndPointOk /\ WellTyped /\ DiffMs = ONE_HOUR_MS

\* C12: on a change-feed INSERT of an active event, the event is in the
\* rendered set afterwards exactly when it was there already or lies within
\* FETCH_RADIUS_METERS of lastFetchRef, the position of the last spatial
\* query that answered.
C12_InsertFilteredByLastQuery ==
  [][(step'.kind = "INSERT" /\ step'.status = "active" /\ lastFetchRef # None)
       => ((\E e \in mapEvents' : e.id = step'.id)
             <=> \/ Rendered(step'.id)
                 \/ haversineMeters(lastFetchRef, step'.position)
                      <= FETCH_RADIUS_METERS)]_<<vars, clientVars>>

\* C12 (state of the divergence): the open subscription filters around a
\* position other than lastFetchRef
C12_FilterOffCentre ==
  \E x \in subs : x.confirmed /\ lastFetchRef # None /\ x.userCoords # lastFetchRef

\* C13: after a change-feed UPDATE whose status is not active, or a DELETE,
\* the rendered set is the previous one without the events of that id.
C13_RemovedWhateverDistance ==
  [][((step'.kind = "UPDATE" /\ step'.status # "active") \/ step'.kind = "DELETE")
       => /\ ~(\E e \in mapEvents' : e.id = step'.id)
          /\ mapEvents' = {e \in mapEvents : e.id # step'.id}]_<<vars, clientVars>>

\* C13 witness: an UPDATE to expired has removed a rendered event that lies
\* outside the radius of the subscription that delivered it, another stays
C13_Witness ==
  /\ step.kind = "UPDATE" /\ step.status = "expired" /\ step.present
  /\ mapEvents # {}
  /\ \E x \in subs :
       x.confirmed /\ haversineMeters(x.userCoords, step.position) > FETCH_RADIUS_METERS

\* C14: with a last-query position stored, a position sample calls
\* fetchEvents (and the callback re-subscribes when the query has answered)
\* exactly when it lies more than REFETCH_THRESHOLD_METERS from it; a sample
\* within the threshold changes the stored coordinates only, and the
\* subscription is replaced only when a query answers.
C14_RefetchBeyondThreshold ==
  [][/\ (step'.kind = "SAMPLE" /\ lastFetchRef # None)
          => /\ step'.issued
                  <=> haversineMeters(lastFetchRef, step'.position)
                        > REFETCH_THRESHOLD_METERS
             /\ step'.issued <=> (callbacks' # callbacks)
             /\ ~step'.issued
                  => /\ coordinates' = step'.position
                     /\ UNCHANGED <<mapEvents, lastFetchRef, channelRef, subs, callbacks>>
     /\ (step'.kind \in {"QUERY_OK", "QUERY_FAILED"} /\ isMounted)
          => /\ channelRef' # channelRef
             /\ \E x \in subs' : x.id = channelRef' /\ x.userCoords = step'.position
     /\ channelRef' # channelRef
          => step'.kind \in {"QUERY_OK", "QUERY_FAILED", "UNMOUNT"}]_<<vars, clientVars>>

\* C14 witness: a sample exactly at the threshold has been stored without a query
C14_Witness ==
  /\ step.kind = "SAMPLE" /\ ~step.issued /\ lastFetchRef # None
  /\ haversineMeters(lastFetchRef, step.position) = REFETCH_THRESHOLD_METERS
  /\ coordinates = step.position

\* C15: at most one change-feed subscription is open at any moment.
C15_AtMostOneSubscription ==
  Cardinality(subs) <= 1

\* C15 witness: a second subscription has been opened while another position
\* sample still waits for its query
C15_Witness ==
  subscribed >= 2 /\ subs # {} /\ callbacks # {}

\* C16: once a subscription is confirmed, a confirmed subscription is open in
\* every state until the screen unmounts.
C16_NoGapInSubscription ==
  [][((\E x \in subs : x.confirmed) /\ isMounted')
       => \E x \in subs' : x.confirmed]_<<vars, clientVars>>

\* C16 (state of the gap): mounted, a subscription was replaced, none is confirmed
C16_Gap ==
  isMounted /\ subscribed >= 2 /\ ~(\E x \in subs : x.confirmed)

\* C17: once the screen has unmounted no subscription is open, no position
\* watcher is active and channelRef is null, whatever init() or a watch
\* callback was waiting for.
C17_ReleasedAfterUnmount ==
  ~isMounted => (subs = {} /\ ~watchActive /\ channelRef = 0)

\* C17 witness: the screen unmounted while watchPositionAsync was pending and
\* the watcher it answered with has been removed
C17_Witness ==
  ~isMounted /\ init.pc = "stopped" /\ subscribed = 1 /\ ~locationWatchRef

\* C18: a failed spatial query leaves the rendered set as it was, and a
\* position sample calls fetchEvents whenever no query has answered yet or
\* the sample lies more than REFETCH_THRESHOLD_METERS from lastFetchRef.
C18_FailedQueryRetried ==
  [][/\ step'.kind = "QUERY_FAILED" => mapEvents' = mapEvents
     /\ (step'.kind = "SAMPLE" /\ isMounted
           /\ (lastFetchRef = None
                  \/ haversineMeters(lastFetchRef, step'.position)
                       > REFETCH_THRESHOLD_METERS))
          => step'.issued]_<<vars, clientVars>>

\* C18 (state of the divergence): the initial query failed and the watcher runs
C18_NeverQueried ==
  watchActive /\ lastFetchRef = None /\ samples >= 1

\* C19: a DeleteEvent call deletes the event row only after it has removed
\* the channel; the step in which it returns the error of a failed channel
\* removal changes neither store, and the call has written nothing before.
C19_DeleteChannelFirst ==
  [][\A r \in Returned' :
       /\ (r.op = "delete" /\ r.res = "DELETE_FAILED")
            => (tables' = tables /\ ~r.wrote /\ r.fault)
       /\ (r.op = "delete" /\ r.res = "DELETED")
            => (r.wrote /\ ~channels[r.event_id].exists
                  /\ ~channels'[r.event_id].exists)]_vars

\* C19 witness: the channel removal of an existing channel failed, and the
\* event, its participant rows and its channel are in place
C19_Witness ==
  \E r \in Returned :
    /\ r.op = "delete" /\ r.res = "DELETE_FAILED"
    /\ Exists(r.event_id) /\ Rows(r.event_id) # {}
    /\ channels[r.event_id].exists /\ channels[r.event_id].members # {}

\* C20: an expire sweep selects only active events; an event that is expired
\* stays expired; a sweep goes on to freeze a channel only in the step in
\* which its own status write found the event active, and a channel becomes
\* frozen only by that sweep.  A second run, after or overlapping the first,
\* therefore writes nothing for the events the first run has expired.
C20_SweepIdempotent ==
  [][/\ \A e \in EventIds :
          /\ (events[e].status = "expired" /\ events'[e].status # "absent")
               => events'[e].status = "expired"
          /\ (channels'[e].frozen /\ ~channels[e].frozen)
               => \E r \in InFlight :
                    r.op = "expire" /\ r.pc = "x_freeze" /\ r.event_id = e
     /\ \A r \in Reqs' :
          (r.op = "expire" /\ CopiesIn(r, requests') > CopiesIn(r, requests))
            => /\ r.pc = "x_freeze" => events[r.event_id].status = "active"
               /\ ops' = ops + 1 => \A e \in r.batch : events[e].status = "active"]_vars

\* C20 witness: a sweep that selected an event while it was active is about
\* to write its status after an overlapping sweep has expired it
C20_Witness ==
  \E r \in InFlight :
    r.op = "expire" /\ r.pc = "x_status" /\ events[r.event_id].status = "expired"

\* C21: no step changes an event's status from expired to anything but
\* expired (the row may be deleted); a Reopen call changes nothing but the
\* frozen flag of the event's channel; a JoinEvent that arrives while the
\* event is expired, reopened or not, returns at once without touching a
\* store, with EVENT_EXPIRED whenever its read of the event answered.
C21_ExpiredNeverActive ==
  [][/\ \A e \in EventIds :
          (events[e].status = "expired" /\ events'[e].status # "absent")
            => events'[e].status = "expired"
     /\ \A r \in Returned' :
          r.op = "reopen"
            => /\ UNCHANGED <<events, event_participants>>
               /\ \A e \in EventIds :
                    \/ channels'[e] = channels[e]
                    \/ /\ e = r.event_id
                       /\ channels'[e] = [channels[e] EXCEPT !.frozen = FALSE]
     /\ \A r \in Reqs' :
          (r.op = "join" /\ ops' = ops + 1
             /\ CopiesIn(r, requests') > CopiesIn(r, requests)
             /\ events[r.event_id].status = "expired")
            => /\ r.pc = "done"
               /\ tables' = tables
               /\ r.fault \/ r.res = "EVENT_EXPIRED"]_vars

\* C21 witness: the host has reopened the channel of an expired event (no
\* provider call failed, so the sweep's freeze was undone by the reopen) and
\* a JoinEvent of another user has been answered EVENT_EXPIRED
C21_Witness ==
  \E r \in Returned :
    /\ r.op = "join" /\ r.res = "EVENT_EXPIRED"
    /\ events[r.event_id].status = "expired"
    /\ channels[r.event_id].exists /\ ~channels[r.event_id].frozen
    /\ ~providerFailed
    /\ <<r.event_id, r.user>> \notin event_participants

\* the retention sweep r takes this step
Sweeps(r, pc) ==
  /\ r.op = "retention" /\ r.pc = pc
  /\ CopiesIn(r, requests') < CopiesIn(r, requests)

C23_ThreeUpdatesPerHour ==
  \A i \in 1..Len(accepted) :
    i + 3 <= Len(accepted) => accepted[i + 3] - accepted[i] >= TicksPerHour

\* C23 (state of the divergence): a fourth update has been accepted within
\* the hour of the first and has replaced the label in the channel
C23_FourthAccepted ==
  /\ Len(accepted) = 4 /\ accepted[4] - accepted[1] < TicksPerHour
  /\ save.pc = "db" /\ meetup_point = save.label /\ meetup_point # save.before[1]

\* C29: when saveMeetupPoint(label) has completed, the channel's
\* meetup_point label and the row's meetup_point_label both equal the
\* trimmed label, or both are what they were before the call.
C29_LabelsAgree ==
  save.pc \in {"done", "failed"} =>
    \/ meetup_point = save.label /\ meetup_point_label = save.label
    \/ <<meetup_point, meetup_point_label>> = save.before

\* C29 (state of the divergence): the call has completed, the channel holds
\* the new label and the row still holds the one from before the call
C29_StoresDiffer ==
  /\ save.pc = "done"
  /\ meetup_point = save.label /\ meetup_point # save.before[1]
  /\ meetup_point_label = save.before[2] /\ meetup_point_label # meetup_point

\* C30: delete-user-account answers success only when the user is gone from
\* the messaging provider, from auth.users and from profiles, and answers
\* its 500 only with the auth user still there.
C30_SuccessMeansBothDeleted ==
  \A u \in Users :
    /\ calls[u].response = "200 success"
         => (u \notin streamUsers /\ u \notin authUsers /\ u \notin profiles)
    /\ calls[u].response = "500 Failed to delete user account"
         => u \in authUsers

\* C30 (state of the divergence): success has been answered, the auth user
\* and the profile are gone, the user of the messaging provider is still there
C30_StreamUserLeft ==
  \E u \in Users :
    /\ calls[u].pc = "done" /\ calls[u].response = "200 success"
    /\ u \notin authUsers /\ u \notin profiles /\ u \in streamUsers

\* C24: a change of an event row is delivered to the INSERT, UPDATE and
\* DELETE handlers only when the city of the row is the city of the user.
C24_FeedFilteredByCity ==
  [][step'.kind \in {"INSERT", "UPDATE", "DELETE"} => step'.city = city]_<<vars, clientVars>>

\* C24 (state of the divergence): the INSERT handler has run for an event of
\* another city than the one the reverse geocode gave
C24_OtherCityDelivered ==
  step.kind = "INSERT" /\ city \in Cities /\ step.city \in Cities /\ step.city # city

\* C25: whenever no request is in flight, a principal whose
\* verification_status is not verified hosts at most one active event.
C25_FreeUserOneActiveEvent ==
  InFlight = {} =>
    \A u \in Users : verification_status(u) # "verified" => ActiveCount(u) <= 1

\* C25 (state of the divergence): two CreateEvent calls of a free user have
\* both completed, each event with its host row and its channel
C25_TwoActiveEvents ==
  /\ InFlight = {}
  /\ \E u \in Users, e, f \in EventIds :
       /\ verification_status(u) # "verified" /\ e # f
       /\ \A g \in {e, f} :
            /\ events[g].status = "active" /\ events[g].host_id = u
            /\ <<g, u>> \in event_participants
            /\ channels[g].exists

\* C26: once a JoinEvent(u, e) call has returned success and no JoinEvent(u, e)
\* call is running any more, the participant row (e, u) exists and u is a
\* member of the channel, for as long as the event and its channel exist.
C26_SuccessMeansJoined ==
  \A x \in succeeded :
    ( /\ \A q \in InFlight : ~(q.op = "join" /\ q.event_id = x[1] /\ q.user = x[2])
      /\ Exists(x[1]) /\ channels[x[1]].exists )
    => (x \in event_participants /\ Member(x[1], x[2]))

\* C26 (state of the divergence): a join was answered with success, an
\* overlapping join of the same user has returned the 500 of its failed
\* addMembers after deleting the row, and the user is a member without a row
C26_RowRolledBack ==
  \E r \in Returned :
    /\ r.op = "join" /\ r.res = "CHAT_FAILED"
    /\ <<r.event_id, r.user>> \in succeeded
    /\ InFlight = {}
    /\ events[r.event_id].status = "active"
    /\ <<r.event_id, r.user>> \notin event_participants
    /\ Member(r.event_id, r.user)

\* the watch callback cb gets the answer of its query in this step
Answers(cb) ==
  cb \in callbacks /\ cb \notin callbacks' /\ step'.kind = "QUERY_OK"

\* C27: when the answer of a query is applied, no event that the feed has
\* reported expired or deleted since the query was issued is in the
\* rendered set.
C27_GoneStaysGone ==
  [][\A cb \in callbacks :
       Answers(cb) => \A e \in mapEvents' : e.id \notin cb.gone]_<<vars, clientVars>>

\* C27 (state of the divergence side): the feed has removed a rendered
\* event while a query is in flight
C27_RemovedDuringQuery ==
  \E cb \in callbacks :
    /\ cb.gone # {} /\ step.kind \in {"UPDATE", "DELETE"} /\ step.present
    /\ step.id \in cb.gone /\ ~Rendered(step.id)

\* C28: the answer to the query of an older position sample, arriving after
\* the answer of a newer one, changes neither the rendered set nor
\* lastFetchRef, and the subscription still filters around lastFetchRef.
C28_NewerSampleWins ==
  [][\A cb \in callbacks :
       (Answers(cb) /\ cb.n < answered)
         => /\ UNCHANGED <<mapEvents, lastFetchRef>>
            /\ \A x \in subs' : x.userCoords = lastFetchRef]_<<vars, clientVars>>

\* C28 (state of the divergence): both queries have answered, the older one
\* last, and lastFetchRef and the subscription are those of the older sample
C28_OlderOverwrote ==
  /\ samples = 2 /\ answered = 2 /\ callbacks = {} /\ isMounted
  /\ step.kind = "QUERY_OK" /\ step.position # coordinates
  /\ lastFetchRef = step.position
  /\ \E x \in subs : x.userCoords = step.position

====
